---- MODULE Spec2Model ----
(***************************************************************************)
(* RAPIDpy: the CF converter (make_CF_RAPID_output.py), the initial-flow   *)
(* and comparison operations of rapid.py, and the seasonal aggregator      *)
(* (inflow/generate_seasonal_averages.py).                                 *)
(*                                                                         *)
(* RapidSpec follows generate_qinit_from_past_qout and the body of         *)
(* compare_qout_files; SeasonalSpec follows generate_seasonal_averages,    *)
(* its pool tasks, their lock and the output store.  Each specification    *)
(* holds the variables of the other operations at their idle values.       *)
(*                                                                         *)
(* Two specifications of the converter share its state and stage bodies:   *)
(*   Spec      convert() exactly as written.  Its call at line 395 gives   *)
(*             _initialize_output two of its four arguments, so every run  *)
(*             that passes validation raises TypeError there and goes to   *)
(*             the handler.                                                *)
(*   StageSpec the stage bodies of convert() run one after the other, the  *)
(*             body of _initialize_output entered with its declared        *)
(*             parameters and lines 400/403 reading the start instant the  *)
(*             constructor stored.  It is the specification for what the   *)
(*             stage bodies, the commit and the handler do.                *)
(*                                                                         *)
(* Library semantics used (netCDF4-python, numpy, Python 2):               *)
(*   - var[k] and var[:] on a netCDF4 Variable read from the store into a  *)
(*     new array; assigning into that array does not write to the store;   *)
(*     only var[k] = x / var[:] = x (Variable.__setitem__) writes.         *)
(*   - numpy slice assignment broadcasts the source to the target's shape  *)
(*     and raises ValueError when it cannot.                               *)
(*   - a value written to an 'i4' variable is cast to 32-bit two's         *)
(*     complement (identifiers here are small and stored as they are).     *)
(*   - float() of a list raises TypeError (csv_to_list gives rows that are  *)
(*     indexed by column at lines 287 and 310).                            *)
(*   - os.remove of an existing file removes it, also while a Dataset     *)
(*     holds it open (POSIX); of a missing file it raises OSError.         *)
(***************************************************************************)
EXTENDS Integers, Sequences, FiniteSets, TLC

\* ------------------------------------------------------------------ bounds
MaxN == 2
MaxT == 2
\* the longest identifier array of a store or list rapid.py reads
MaxIds == 3

\* The identifiers a store or a lookup table may hold.
IdPool == {101, 102, 103}

\* ------------------------------------------------------------- sentinels
\* fill_value of lat, lon and z
FillValue == -9999
\* stands for the netCDF default fill of a variable created without fill_value
DefaultFill == 0 - 2147483647

NoErr == [kind |-> "none", arg |-> 0]
Err(k, a) == [kind |-> k, arg |-> a]

\* ------------------------------------------------------------ arrays
Range(s) == {s[i] : i \in DOMAIN s}

InjSeqs(S, n) == {s \in [1..n -> S] : \A i, j \in 1..n : i # j => s[i] # s[j]}

\* A 2-D array is a sequence of rows; numpy's shape of it.
Rows(a) == Len(a)
Cols(a) == IF Len(a) = 0 THEN 0 ELSE Len(a[1])

\* ndarray.transpose() of a 2-D array with at least one row and one column.
Transpose(a) == [c \in 1..Cols(a) |-> [r \in 1..Rows(a) |-> a[r][c]]]

\* numpy's rule for target[...] = source, both 2-D: every source axis equals
\* the target's or is 1.
BroadcastOK(srcRows, srcCols, dstRows, dstCols) ==
    /\ (srcRows = dstRows \/ srcRows = 1)
    /\ (srcCols = dstCols \/ srcCols = 1)

\* The largest value an 'i4' variable holds.  (It is also the largest integer
\* of the model checker, so a sum and its cast to i4 are computed together.)
I4Max == 2147483647

\* a + b cast to i4, for a and b in 0..I4Max: the sum when it fits, and
\* a + b - 2^32 when it does not.
AddI4(a, b) ==
    IF b <= I4Max - a THEN a + b
    ELSE (a - I4Max - 1) + (b - I4Max - 1)

\* np.arange(start, stop, step) for step > 0.
Arange(start, stop, step) ==
    LET n == IF stop <= start THEN 0 ELSE ((stop - start) + step - 1) \div step
    IN  [k \in 1..n |-> start + (k - 1) * step]

\* ------------------------------------------------------------ inputs
\* The raw store: its dimension and variable names, the declared dimension
\* order of its flow variable, its identifier array, its number of time
\* steps and its flow values.  q[i][t] is the flow of the i-th identifier at
\* raw time step t (1-based here, t-1 in the source).
RawLayouts ==
    { [dims |-> {"COMID", "Time"},              vars |-> {"COMID", "Qout"}],
      [dims |-> {"FEATUREID", "Time"},          vars |-> {"FEATUREID", "m3_riv"}],
      [dims |-> {"FEATUREID", "Time"},          vars |-> {"FEATUREID", "Qout"}],
      [dims |-> {"COMID", "FEATUREID", "Time"}, vars |-> {"COMID", "FEATUREID", "Qout", "m3_riv"}],
      [dims |-> {"Time"},                       vars |-> {"Qout"}],
      [dims |-> {"COMID"},                      vars |-> {"COMID", "Qout"}],
      [dims |-> {"COMID", "Time"},              vars |-> {"COMID"}],
      [dims |-> {"COMID", "Time"},              vars |-> {"Qout"}] }

Orders == {"time_id", "id_time"}

\* Flow values that tell every cell of the matrix apart.
CellValue(i, t) == 10 * i + t

RawStores ==
    { [dims |-> l.dims, vars |-> l.vars, order |-> o, ids |-> s, T |-> T,
       q |-> [i \in 1..Len(s) |-> [t \in 1..T |-> CellValue(i, t)]]] :
        l \in RawLayouts, o \in Orders,
        s \in UNION {InjSeqs(IdPool, m) : m \in 1..MaxN},
        T \in 1..MaxT }

\* The flow variable as the raw store holds it: (Time, id) or (id, Time).
RawArray(r) == IF r.order = "time_id" THEN Transpose(r.q) ELSE r.q

\* The lookup CSV: a header row, then one row <<id, lat, lon, z>> per
\* identifier of a subset of the pool, in pool order.
PoolSeq == <<101, 102, 103>>
LatOf(id) == id - 100
LonOf(id) == id - 200
ZOf(id) == id + 100
Header == <<0, 0, 0, 0>>
TableOf(S) ==
    LET keep(x) == x \in S
        idsIn == SelectSeq(PoolSeq, keep)
    IN  <<Header>> \o [k \in 1..Len(idsIn) |->
                         <<idsIn[k], LatOf(idsIn[k]), LonOf(idsIn[k]), ZOf(idsIn[k])>>]

\* comid_lat_lon_z_file: "" (not given) or a file with a table.
Lookups ==
    {[given |-> FALSE, table |-> <<Header>>]} \cup
    {[given |-> TRUE, table |-> TableOf(S)] :
        S \in {IdPool} \cup {IdPool \ {x} : x \in IdPool}}

\* qinit_file: "" (not given) or a file of rows; csv_to_list gives each row
\* as the list of its fields, here the one field of a line.
QinitOf(r) ==
    {[given |-> FALSE, rows |-> <<>>],
     [given |-> TRUE, rows |-> <<>>],
     [given |-> TRUE, rows |-> [i \in 1..Len(r.ids) |-> <<5 + i>>]]}

\* Start instants (seconds since 1970-01-01) and steps tried: 946684800 is
\* 2000-01-01T00:00:00Z; 2147483647 is the last second an i4 holds.
TimeCases == {[start |-> 946684800, step |-> 86400],
              [start |-> 0, step |-> 1],
              [start |-> 2147483647, step |-> 1]}

IdNames == {"COMID", "FEATUREID"}

\* ------------------------------------------------------ stage bodies
\* log(message, severity): prints for WARNING, INFO and DEBUG, raises for
\* every other severity.
LogRaises(severity) == severity \notin {"WARNING", "INFO", "DEBUG"}

\* _validate_raw_nc without the check of lines 130-132 for the Time dimension.
ValidateRawNcNoTime(r) ==
    LET id_dim_name == IF "COMID" \in r.dims THEN "COMID"
                       ELSE IF "FEATUREID" \in r.dims THEN "FEATUREID"
                       ELSE "none"
        q_var_name == IF "Qout" \in r.vars THEN "Qout"
                      ELSE IF "m3_riv" \in r.vars THEN "m3_riv"
                      ELSE "none"
        bad(k) == [ok |-> FALSE, err |-> Err(k, 0), id_dim_name |-> "none",
                   id_len |-> 0, time_len |-> 0, q_var_name |-> "none"]
    IN  IF id_dim_name = "none" THEN bad("no_id_dimension")
        ELSE IF q_var_name = "none" THEN bad("no_flow_variable")
        ELSE [ok |-> TRUE, err |-> NoErr, id_dim_name |-> id_dim_name,
              id_len |-> Len(r.ids), time_len |-> r.T + 1,
              q_var_name |-> q_var_name]

\* _validate_raw_nc: the names and lengths it returns, or the error it
\* raises.  (Lines 137-146 compute id_var_name from dims a second time, so
\* the warning there never prints.)
ValidateRawNc(r) ==
    LET dims == r.dims
        variables == r.vars
        id_dim_name == IF "COMID" \in dims THEN "COMID"
                       ELSE IF "FEATUREID" \in dims THEN "FEATUREID"
                       ELSE "none"
        q_var_name == IF "Qout" \in variables THEN "Qout"
                      ELSE IF "m3_riv" \in variables THEN "m3_riv"
                      ELSE "none"
        bad(k) == [ok |-> FALSE, err |-> Err(k, 0), id_dim_name |-> "none",
                   id_len |-> 0, time_len |-> 0, q_var_name |-> "none"]
    IN  IF id_dim_name = "none" THEN bad("no_id_dimension")
        ELSE IF "Time" \notin dims THEN bad("no_time_dimension")
        ELSE IF q_var_name = "none" /\ LogRaises("ERROR") THEN bad("no_flow_variable")
        ELSE [ok |-> TRUE, err |-> NoErr, id_dim_name |-> id_dim_name,
              id_len |-> Len(r.ids), time_len |-> r.T + 1,
              q_var_name |-> q_var_name]

NotValidated == [ok |-> FALSE, err |-> NoErr, id_dim_name |-> "none",
                 id_len |-> 0, time_len |-> 0, q_var_name |-> "none"]

\* The output store before it exists.
NoStore == [idDim |-> "none", idLen |-> 0, timeLen |-> 0,
            time |-> <<>>, ids |-> <<>>, lat |-> <<>>, lon |-> <<>>, z |-> <<>>,
            qCreated |-> FALSE, q |-> <<>>]

\* _initialize_output(id_dim_name, time_len, id_len, time_step_seconds):
\* the dimensions and the variables without data.  (Its attributes are not
\* modelled.)
InitializeOutput(id_dim_name, time_len, id_len) ==
    [idDim |-> id_dim_name, idLen |-> id_len, timeLen |-> time_len,
     time |-> [k \in 1..time_len |-> DefaultFill],
     ids |-> [i \in 1..id_len |-> DefaultFill],
     lat |-> [i \in 1..id_len |-> FillValue],
     lon |-> [i \in 1..id_len |-> FillValue],
     z |-> [i \in 1..id_len |-> FillValue],
     qCreated |-> FALSE, q |-> <<>>]

\* Lines 399-406: np.arange(secs_start, secs_start + total_seconds,
\* time_step), given as its offsets from secs_start.
TimeOffsets(time_step, time_len) ==
    LET total_seconds == time_step * time_len
    IN  Arange(0, total_seconds, time_step)

\* Lines 405-406: cf_nc.variables['time'][:] = the values, stored as i4.
PopulateTimeValues(c, secs_start, time_step) ==
    LET vals == TimeOffsets(time_step, c.timeLen)
    IN  IF Len(vals) # c.timeLen
        THEN [ok |-> FALSE, err |-> Err("shape_mismatch", 0), cf |-> c]
        ELSE [ok |-> TRUE, err |-> NoErr,
              cf |-> [c EXCEPT !.time = [k \in 1..c.timeLen |-> AddI4(secs_start, vals[k])]]]

\* Line 413 copying the identifiers in reverse order.
PopulateIdValuesReversed(c, r, input_id_dim_name, output_id_dim_name) ==
    IF input_id_dim_name \notin r.vars
    THEN [ok |-> FALSE, err |-> Err("KeyError_raw", 0), cf |-> c]
    ELSE IF output_id_dim_name # c.idDim
    THEN [ok |-> FALSE, err |-> Err("KeyError_cf", 0), cf |-> c]
    ELSE [ok |-> TRUE, err |-> NoErr,
          cf |-> [c EXCEPT !.ids = [i \in 1..c.idLen |-> r.ids[c.idLen + 1 - i]]]]

\* Line 413: cf_nc.variables[output_id_dim_name][:] =
\*           raw_nc.variables[input_id_dim_name][:]
PopulateIdValues(c, r, input_id_dim_name, output_id_dim_name) ==
    IF input_id_dim_name \notin r.vars
    THEN [ok |-> FALSE, err |-> Err("KeyError_raw", 0), cf |-> c]
    ELSE IF output_id_dim_name # c.idDim
    THEN [ok |-> FALSE, err |-> Err("KeyError_cf", 0), cf |-> c]
    ELSE [ok |-> TRUE, err |-> NoErr,
          cf |-> [c EXCEPT !.ids = [i \in 1..c.idLen |-> r.ids[i]]]]

\* np.where(lookup_comids == nc_comid)[0]: the 0-based positions, among the
\* rows after the header, whose identifier is nc_comid.
WhereEqual(lookup_table, nc_comid) ==
    {k \in 0..(Len(lookup_table) - 2) : lookup_table[k + 2][1] = nc_comid}

Min(S) == CHOOSE x \in S : \A y \in S : x <= y

\* Line 305: lookup_index, the 0-based row of lookup_table (header = row 0).
LookupIndex(lookup_table, nc_comid) == Min(WhereEqual(lookup_table, nc_comid)) + 1

\* The cell lookup_table[lookup_index][col], col 0-based.
Cell(lookup_table, lookup_index, col) == lookup_table[lookup_index + 1][col + 1]

\* The positions of nc_comids with no row in the lookup table.
Misses(lookup_table, nc_comids) ==
    {i \in 1..Len(nc_comids) : WhereEqual(lookup_table, nc_comids[i]) = {}}

\* _write_comid_lat_lon_z skipping an identifier that has no row, its
\* coordinates left at the fill value.
WriteComidLatLonZSkip(c, lookup) ==
    IF ~lookup.given THEN [ok |-> TRUE, err |-> NoErr, cf |-> c]
    ELSE LET nc_comids == c.ids
             at(i, col) ==
                IF WhereEqual(lookup.table, nc_comids[i]) = {} THEN FillValue
                ELSE Cell(lookup.table, LookupIndex(lookup.table, nc_comids[i]), col)
         IN  [ok |-> TRUE, err |-> NoErr,
              cf |-> [c EXCEPT
                        !.lat = [i \in 1..Len(nc_comids) |-> at(i, 1)],
                        !.lon = [i \in 1..Len(nc_comids) |-> at(i, 2)],
                        !.z = [i \in 1..Len(nc_comids) |-> at(i, 3)]]]

\* _write_comid_lat_lon_z: the loop of lines 303-329 fills local arrays and
\* lines 332-334 write them to the store.  The first identifier without a
\* row ends the loop through log(..., 'ERROR'), before anything is written.
WriteComidLatLonZ(c, lookup) ==
    IF ~lookup.given THEN [ok |-> TRUE, err |-> NoErr, cf |-> c]
    ELSE LET nc_comids == c.ids
             miss == Misses(lookup.table, nc_comids)
         IN  IF miss # {} /\ LogRaises("ERROR")
             THEN [ok |-> FALSE,
                   err |-> Err("comid_missing", nc_comids[Min(miss)]),
                   cf |-> c]
             ELSE [ok |-> TRUE, err |-> NoErr,
                   cf |-> [c EXCEPT
                     !.lat = [i \in 1..Len(nc_comids) |->
                        Cell(lookup.table, LookupIndex(lookup.table, nc_comids[i]), 1)],
                     !.lon = [i \in 1..Len(nc_comids) |->
                        Cell(lookup.table, LookupIndex(lookup.table, nc_comids[i]), 2)],
                     !.z = [i \in 1..Len(nc_comids) |->
                        Cell(lookup.table, LookupIndex(lookup.table, nc_comids[i]), 3)]]]

\* Line 368, right-hand side: raw_nc.variables[name][:].transpose().
CopySource(r) == Transpose(RawArray(r))

\* Line 368, left-hand side: q_var[:][1:] is rows 1.. of a copy of the whole
\* (id, time) variable: a target of shape (id_len - 1, time_len).  The
\* assignment raises unless the source broadcasts to it, and it changes the
\* copy only.
CopyTargetRows(c) == c.idLen - 1
CopyTargetCols(c) == c.timeLen

\* Lines 371-376: with a qinit file, float(init_flow) of the first row (a
\* list) raises; without one, q_var[index][0] = 0 sets a cell of a copy of
\* row index.  Neither changes the store.
InitFlowRaises(qinit) == qinit.given /\ Len(qinit.rows) > 0

\* _copy_streamflow_values: creates the flow variable (id, time), all fill,
\* then lines 368-376.
CopyStreamflowValues(c, r, output_id_dim_name, qinit) ==
    LET created == [c EXCEPT !.qCreated = TRUE,
                             !.q = [i \in 1..c.idLen |->
                                      [k \in 1..c.timeLen |-> DefaultFill]]]
        src == CopySource(r)
    IN  IF output_id_dim_name # c.idDim
        THEN [ok |-> FALSE, err |-> Err("no_such_dimension", 0), cf |-> c]
        ELSE IF ~BroadcastOK(Rows(src), Cols(src),
                             CopyTargetRows(c), CopyTargetCols(c))
        THEN [ok |-> FALSE, err |-> Err("ValueError_broadcast", 0), cf |-> created]
        ELSE IF InitFlowRaises(qinit)
        THEN [ok |-> FALSE, err |-> Err("TypeError_float", 0), cf |-> created]
        ELSE [ok |-> TRUE, err |-> NoErr, cf |-> created]

\* ------------------------------------------------------------- state
VARIABLES
    raw,        \* the raw store's content (never written by the converter)
    args,       \* the constructor's arguments
    pc,         \* where convert() is
    err,        \* the exception on its way to the caller, or NoErr
    rawPath,    \* what is at rapid_output_file: "raw", "none" or "cf"
    cfPath,     \* what is at cf_compliant_file: "none", "stale" or "cf"
    rawOpen,    \* self.raw_nc is open
    cfOpen,     \* self.cf_nc is open
    cf,         \* the content of the output store
    validated,  \* what _validate_raw_nc returned
    copied,     \* the array line 368 offered to the flow variable
    events      \* the steps run so far, in order

\* rapid.py: generate_qinit_from_past_qout and compare_qout_files
VARIABLES
    rin,        \* the files the operation reads: two flow stores, connectivity
    rpc,        \* where the operation is
    rerr,       \* the exception it raised, or NoErr
    rapidObj,   \* the RAPID object's Qinit_file and BS_opt_Qinit
    qinitDisk,  \* the file at qinit_file: <<>> when absent, else <<lines>>
    gq,         \* locals of generate_qinit_from_past_qout
    cmp         \* locals of compare_qout_files

\* generate_seasonal_averages.py: the parent, its pool tasks, lock and store
VARIABLES
    sin,        \* the input store and the bins whose tasks are followed
    ppc,        \* where generate_seasonal_averages is
    perr,       \* the exception the parent raised, or NoErr
    store,      \* the content of seasonal_average_file
    lock,       \* mp_lock: 0 free, else the bin of the task that acquired it
    wpc,        \* bin -> where its generate_single_seasonal_average call is
    wloc        \* bin -> the locals of that call

convVars == <<raw, args, pc, err, rawPath, cfPath, rawOpen, cfOpen, cf,
              validated, copied, events>>
rapidVars == <<rin, rpc, rerr, rapidObj, qinitDisk, gq, cmp>>
seasonalVars == <<sin, ppc, perr, store, lock, wpc, wloc>>
notConverter == <<rapidVars, seasonalVars>>
notRapid == <<convVars, seasonalVars>>
notSeasonal == <<convVars, rapidVars>>

vars == <<convVars, rapidVars, seasonalVars>>

\* The converter's variables while another operation is followed.
ConverterIdle ==
    /\ raw = [dims |-> {}, vars |-> {}, order |-> "time_id", ids |-> <<>>,
              T |-> 0, q |-> <<>>]
    /\ args = [output_id_dim_name |-> "COMID"]
    /\ pc = "idle"
    /\ err = NoErr
    /\ rawPath = "raw"
    /\ cfPath = "none"
    /\ rawOpen = FALSE
    /\ cfOpen = FALSE
    /\ cf = NoStore
    /\ validated = NotValidated
    /\ copied = <<>>
    /\ events = <<>>

\* The rapid.py variables while another operation is followed.
RapidIdle ==
    /\ rin = <<>>
    /\ rpc = "idle"
    /\ rerr = NoErr
    /\ rapidObj = [Qinit_file |-> "", BS_opt_Qinit |-> FALSE]
    /\ qinitDisk = <<>>
    /\ gq = <<>>
    /\ cmp = <<>>

\* The seasonal aggregator's variables while another operation is followed.
SeasonalIdle ==
    /\ sin = <<>>
    /\ ppc = "idle"
    /\ perr = NoErr
    /\ store = <<>>
    /\ lock = 0
    /\ wpc = <<>>
    /\ wloc = <<>>

Init ==
    /\ RapidIdle
    /\ SeasonalIdle
    /\ raw \in RawStores
    /\ \E o \in IdNames, l \in Lookups, t \in TimeCases, qi \in QinitOf(raw) :
          args = [output_id_dim_name |-> o, comid_lat_lon_z_file |-> l,
                  qinit_file |-> qi, start |-> t.start, time_step |-> t.step]
    /\ pc = "start"
    /\ err = NoErr
    /\ rawPath = "raw"
    /\ cfPath \in {"none", "stale"}
    /\ rawOpen = FALSE
    /\ cfOpen = FALSE
    /\ cf = NoStore
    /\ validated = NotValidated
    /\ copied = <<>>
    /\ events = <<>>

\* A stage that raised: the exception goes to the handler of line 435.
Raise(e) ==
    /\ err' = e
    /\ pc' = "handler"

\* Lines 388-391: the raw store is opened and validated.
Validate ==
    /\ pc = "start"
    /\ LET v == ValidateRawNc(raw)
       IN  /\ validated' = v
           /\ IF v.ok THEN pc' = "validated" /\ err' = err ELSE Raise(v.err)
    /\ rawOpen' = TRUE
    /\ events' = Append(events, "validate")
    /\ UNCHANGED <<raw, args, rawPath, cfPath, cfOpen, cf, copied>>
    /\ UNCHANGED notConverter

\* Line 395 as written: self._initialize_output(time_len, id_len) binds two
\* of the four parameters of _initialize_output, which raises TypeError
\* before its body runs.
InitializeOutputCall ==
    /\ pc = "validated"
    /\ Raise(Err("TypeError_arguments", 0))
    /\ events' = Append(events, "initialize_call")
    /\ UNCHANGED <<raw, args, rawPath, cfPath, rawOpen, cfOpen, cf,
                   validated, copied>>
    /\ UNCHANGED notConverter

\* The body of _initialize_output, entered with its declared parameters:
\* id_dim_name is one of the two names in scope at the call, the validated
\* one or the constructor's.  Dataset(cf_compliant_file, 'w') creates the
\* file, replacing a stale one.
RunInitializeOutput ==
    /\ pc = "validated"
    /\ \E id_dim_name \in {validated.id_dim_name, args.output_id_dim_name} :
          cf' = InitializeOutput(id_dim_name, validated.time_len, validated.id_len)
    /\ cfPath' = "cf"
    /\ cfOpen' = TRUE
    /\ pc' = "initialized"
    /\ events' = Append(events, "initialize")
    /\ UNCHANGED <<raw, args, err, rawPath, rawOpen, validated, copied>>
    /\ UNCHANGED notConverter

\* Lines 397-408.
PopulateTime ==
    /\ pc = "initialized"
    /\ LET res == PopulateTimeValues(cf, args.start, args.time_step)
       IN  /\ cf' = res.cf
           /\ IF res.ok THEN pc' = "timed" /\ err' = err ELSE Raise(res.err)
    /\ events' = Append(events, "time")
    /\ UNCHANGED <<raw, args, rawPath, cfPath, rawOpen, cfOpen, validated, copied>>
    /\ UNCHANGED notConverter

\* Line 413.
PopulateIds ==
    /\ pc = "timed"
    /\ LET res == PopulateIdValues(cf, raw, validated.id_dim_name,
                                   args.output_id_dim_name)
       IN  /\ cf' = res.cf
           /\ IF res.ok THEN pc' = "ids" /\ err' = err ELSE Raise(res.err)
    /\ events' = Append(events, "ids")
    /\ UNCHANGED <<raw, args, rawPath, cfPath, rawOpen, cfOpen, validated, copied>>
    /\ UNCHANGED notConverter

\* Line 415.
PopulateLatLonZ ==
    /\ pc = "ids"
    /\ LET res == WriteComidLatLonZ(cf, args.comid_lat_lon_z_file)
       IN  /\ cf' = res.cf
           /\ IF res.ok THEN pc' = "latlon" /\ err' = err ELSE Raise(res.err)
    /\ events' = Append(events, "latlon")
    /\ UNCHANGED <<raw, args, rawPath, cfPath, rawOpen, cfOpen, validated, copied>>
    /\ UNCHANGED notConverter

\* Line 422.
PopulateStreamflow ==
    /\ pc = "latlon"
    /\ LET res == CopyStreamflowValues(cf, raw, args.output_id_dim_name,
                                       args.qinit_file)
       IN  /\ cf' = res.cf
           /\ IF res.ok THEN pc' = "copied" /\ err' = err ELSE Raise(res.err)
    /\ copied' = CopySource(raw)
    /\ events' = Append(events, "streamflow")
    /\ UNCHANGED <<raw, args, rawPath, cfPath, rawOpen, cfOpen, validated>>
    /\ UNCHANGED notConverter

\* Line 424.
CloseRaw ==
    /\ pc = "copied"
    /\ rawOpen' = FALSE
    /\ pc' = "raw_closed"
    /\ events' = Append(events, "close_raw")
    /\ UNCHANGED <<raw, args, err, rawPath, cfPath, cfOpen, cf, validated, copied>>
    /\ UNCHANGED notConverter

\* Line 425 left out: the output store stays open.
CloseCfForgotten ==
    /\ pc = "raw_closed"
    /\ pc' = "cf_closed"
    /\ events' = Append(events, "close_cf")
    /\ UNCHANGED <<raw, args, err, rawPath, cfPath, rawOpen, cfOpen, cf,
                   validated, copied>>
    /\ UNCHANGED notConverter

\* Line 425.
CloseCf ==
    /\ pc = "raw_closed"
    /\ cfOpen' = FALSE
    /\ pc' = "cf_closed"
    /\ events' = Append(events, "close_cf")
    /\ UNCHANGED <<raw, args, err, rawPath, cfPath, rawOpen, cf, validated, copied>>
    /\ UNCHANGED notConverter

\* The raw file deleted right after the streamflow stage, before the stores
\* are closed.
RemoveRawEarly ==
    /\ pc = "copied"
    /\ rawPath' = "none"
    /\ pc' = "removed"
    /\ events' = Append(events, "remove_raw")
    /\ UNCHANGED <<raw, args, err, cfPath, rawOpen, cfOpen, cf, validated, copied>>
    /\ UNCHANGED notConverter

\* Lines 427-430: os.remove(rapid_output_file); the file is there, since it
\* was opened at line 119.
RemoveRaw ==
    /\ pc = "cf_closed"
    /\ rawPath' = "none"
    /\ pc' = "removed"
    /\ events' = Append(events, "remove_raw")
    /\ UNCHANGED <<raw, args, err, cfPath, rawOpen, cfOpen, cf, validated, copied>>
    /\ UNCHANGED notConverter

\* Line 433: os.rename(cf_compliant_file, rapid_output_file), which the
\* operating system may refuse (OSError).
RenameOutput ==
    /\ pc = "removed"
    /\ \/ /\ rawPath' = "cf"
          /\ cfPath' = "none"
          /\ pc' = "done"
          /\ err' = err
       \/ /\ Raise(Err("OSError_rename", 0))
          /\ UNCHANGED <<rawPath, cfPath>>
    /\ events' = Append(events, "rename")
    /\ UNCHANGED <<raw, args, rawOpen, cfOpen, cf, validated, copied>>
    /\ UNCHANGED notConverter

\* The handler without its os.remove(cf_compliant_file).
HandlerKeepsFile ==
    /\ pc = "handler"
    /\ pc' = "raised"
    /\ events' = Append(events, "handler")
    /\ UNCHANGED <<raw, args, err, rawPath, cfPath, rawOpen, cfOpen, cf,
                   validated, copied>>
    /\ UNCHANGED notConverter

\* Lines 435-441: os.remove(cf_compliant_file), OSError ignored when there
\* is no such file; then log(..., 'ERROR') raises to the caller.
Handler ==
    /\ pc = "handler"
    /\ cfPath' = "none"
    /\ pc' = IF LogRaises("ERROR") THEN "raised" ELSE "returned"
    /\ events' = Append(events, "handler")
    /\ UNCHANGED <<raw, args, err, rawPath, rawOpen, cfOpen, cf, validated, copied>>
    /\ UNCHANGED notConverter

\* convert() as written.
Next == Validate \/ InitializeOutputCall \/ Handler

Spec == Init /\ [][Next]_vars

\* The stage bodies in convert()'s order.
StageNext ==
    \/ Validate
    \/ RunInitializeOutput
    \/ PopulateTime
    \/ PopulateIds
    \/ PopulateLatLonZ
    \/ PopulateStreamflow
    \/ CloseRaw
    \/ CloseCf
    \/ RemoveRaw
    \/ RenameOutput
    \/ Handler

StageSpec == Init /\ [][StageNext]_vars

\* ============================================================ rapid.py
\* ------------------------------------------------------------ inputs
\* The flow of an identifier at a time step: the same in every store that
\* holds the identifier, whatever its position there.
FlowOf(id, t) == 10 * (id - 100) + t

\* The name of a store's identifier variable and the dimension names of its
\* flow variable, in declared order.
StoreLayouts ==
    { [idVar |-> "COMID",     dims |-> <<"Time", "COMID">>],
      [idVar |-> "COMID",     dims |-> <<"COMID", "Time">>],
      [idVar |-> "COMID",     dims |-> <<"Time", "rivid">>],
      [idVar |-> "FEATUREID", dims |-> <<"Time", "FEATUREID">>] }

IdSeqs == UNION {InjSeqs(IdPool, m) : m \in 1..MaxIds}

\* A flow store; q[i][t] is the flow of its i-th identifier at step t.
FlowStore(l, s, n) ==
    [idVar |-> l.idVar, dims |-> l.dims, ids |-> s, T |-> n,
     q |-> [i \in 1..Len(s) |-> [t \in 1..n |-> FlowOf(s[i], t)]]]

FlowStores == {FlowStore(l, s, n) : l \in StoreLayouts, s \in IdSeqs, n \in 1..MaxT}

\* str.lower() on the dimension names that occur.
Lower(name) ==
    CASE name = "Time" -> "time"
      [] name = "COMID" -> "comid"
      [] name = "FEATUREID" -> "featureid"
      [] OTHER -> name

\* variables[Qout_var][:] : the flow array in the declared dimension order.
StoredArray(s) == IF Lower(s.dims[1]) = "time" THEN Transpose(s.q) ELSE s.q

\* ------------------------------------------------------------ reindexing
\* np.where(a == x)[0]: the 0-based positions of x in a.
WherePositions(a, x) == {j - 1 : j \in {k \in DOMAIN a : a[k] = x}}

\* np.where(a == x)[0][0] raises IndexError exactly when x is not in a.
Absent(a, x) == WherePositions(a, x) = {}

\* Always the last position of a, whatever x is.
FirstIndexLast(a, x) == Len(a) - 1

\* np.where(a == x)[0][0] for x in a: the first 0-based position of x.
FirstIndex(a, x) == Min(WherePositions(a, x))

MaxOf(S) == CHOOSE x \in S : \A y \in S : y <= x

\* Lines 534-537 of compare_qout_files: for every identifier of d1, in
\* order, its position in d2; the loop stops with IndexError at the first
\* identifier d2 does not hold.  The IndexError carries no identifier.
ReorderedComidList(d1_ids, d2_comid_list) ==
    LET missing == {i \in DOMAIN d1_ids : Absent(d2_comid_list, d1_ids[i])}
    IN  IF missing # {}
        THEN [ok |-> FALSE, err |-> Err("IndexError", 0),
              list |-> [i \in 1..(Min(missing) - 1) |->
                           FirstIndex(d2_comid_list, d1_ids[i])]]
        ELSE [ok |-> TRUE, err |-> NoErr,
              list |-> [i \in DOMAIN d1_ids |->
                           FirstIndex(d2_comid_list, d1_ids[i])]]

\* Lines 411-417 of generate_qinit_from_past_qout: zeros, one per row of the
\* connectivity list; the flow of every identifier of the store is put at
\* the identifier's position in the list.  An identifier the list does not
\* hold raises an Exception whose message carries it.
InitFlows(stream_id_array, riv_bas_id_array, data_values) ==
    LET missing == {k \in DOMAIN riv_bas_id_array :
                       Absent(stream_id_array, riv_bas_id_array[k])}
        from(j) == {k \in DOMAIN riv_bas_id_array :
                       FirstIndex(stream_id_array, riv_bas_id_array[k]) = j - 1}
    IN  IF missing # {}
        THEN [ok |-> FALSE,
              err |-> Err("Exception_not_found", riv_bas_id_array[Min(missing)]),
              flows |-> <<>>]
        ELSE [ok |-> TRUE, err |-> NoErr,
              flows |-> [j \in DOMAIN stream_id_array |->
                           IF from(j) = {} THEN 0
                           ELSE data_values[MaxOf(from(j))]]]

\* a[0, :], the first time step instead of the last.
FirstRowOf(a) == a[1]

\* a[-1, :] and a[:, -1] of a 2-D array.
LastRow(a) == a[Len(a)]
LastCol(a) == [i \in 1..Rows(a) |-> a[i][Cols(a)]]

\* a[:, list] and a[list, :] with a list of 0-based positions.
TakeCols(a, list) == [r \in 1..Rows(a) |-> [k \in DOMAIN list |-> a[r][list[k] + 1]]]
TakeRows(a, list) == [k \in DOMAIN list |-> a[list[k] + 1]]

\* d1_ids != d2_ids of numpy: element by element when the lengths agree or
\* one of them is 1 (broadcast), else the single value True.
NotEqualArray(a, b) ==
    IF Len(a) = Len(b) THEN [i \in DOMAIN a |-> a[i] # b[i]]
    ELSE IF Len(a) = 1 THEN [i \in DOMAIN b |-> a[1] # b[i]]
    ELSE IF Len(b) = 1 THEN [i \in DOMAIN a |-> a[i] # b[1]]
    ELSE <<TRUE>>

\* Line 529: not np.unique(d1_ids != d2_ids).all()
ReorderWanted(d1_ids, d2_ids) == FALSE \in Range(NotEqualArray(d1_ids, d2_ids))

\* '{}\n'.format(init_flow): one line, one field.
FormatLine(init_flow) == <<init_flow>>

NoFile == [exists |-> FALSE, lines |-> <<>>]
NoGq == [riv_bas_id_array |-> <<>>, data_values |-> <<>>, init_flows_array |-> <<>>]
NoCmp == [reorder |-> FALSE, d2_reordered_comid_list |-> <<>>,
          d2_reordered_qout |-> <<>>]

\* The object and the file at qinit_file before the call: as the constructor
\* leaves them, or as an earlier call left them.
PrevObj(had) ==
    IF had THEN [Qinit_file |-> "previous", BS_opt_Qinit |-> TRUE]
    ELSE [Qinit_file |-> "", BS_opt_Qinit |-> FALSE]
PrevDisk(had) ==
    IF had THEN [exists |-> TRUE, lines |-> <<FormatLine(7)>>] ELSE NoFile

\* ------------------------------------------------------------ state
\* Either generate_qinit_from_past_qout(qinit_file) is called on an object
\* whose Qout_file is d1 and whose rapid_connect_file lists connect, or the
\* body of compare_qout_files runs on the stores d1 and d2 (d2 has d1's
\* layout and number of time steps).
RapidInit ==
    /\ ConverterIdle
    /\ SeasonalIdle
    /\ \E s1 \in FlowStores, h \in BOOLEAN :
          \/ \E c \in IdSeqs :
                rin = [op |-> "qinit", d1 |-> s1, d2 |-> s1, connect |-> c,
                       had |-> h]
          \/ \E s2 \in IdSeqs :
                rin = [op |-> "compare", d1 |-> s1,
                       d2 |-> FlowStore([idVar |-> s1.idVar, dims |-> s1.dims],
                                        s2, s1.T),
                       connect |-> <<>>, had |-> h]
    /\ rpc = "start"
    /\ rerr = NoErr
    /\ rapidObj = PrevObj(rin.had)
    /\ qinitDisk = PrevDisk(rin.had)
    /\ gq = NoGq
    /\ cmp = NoCmp

RapidRaise(e) ==
    /\ rerr' = e
    /\ rpc' = "raised"

\* Lines 394-406: the identifiers and the last time step of Qout_file.
GqExtract ==
    /\ rin.op = "qinit"
    /\ rpc = "start"
    /\ LET s == rin.d1
           a == StoredArray(s)
       IN  IF s.idVar # "COMID"
           THEN RapidRaise(Err("KeyError", 0)) /\ gq' = gq
           ELSE IF Lower(s.dims[1]) = "time" /\ Lower(s.dims[2]) = "comid"
           THEN /\ gq' = [gq EXCEPT !.riv_bas_id_array = s.ids,
                                    !.data_values = LastRow(a)]
                /\ rpc' = "extracted"
                /\ rerr' = rerr
           ELSE IF Lower(s.dims[2]) = "time" /\ Lower(s.dims[1]) = "comid"
           THEN /\ gq' = [gq EXCEPT !.riv_bas_id_array = s.ids,
                                    !.data_values = LastCol(a)]
                /\ rpc' = "extracted"
                /\ rerr' = rerr
           ELSE RapidRaise(Err("Exception_invalid_file", 0)) /\ gq' = gq
    /\ UNCHANGED <<rin, rapidObj, qinitDisk, cmp>>
    /\ UNCHANGED notRapid

\* Lines 408-417: the flows put in the order of the connectivity list.
GqReorder ==
    /\ rpc = "extracted"
    /\ LET r == InitFlows(rin.connect, gq.riv_bas_id_array, gq.data_values)
       IN  IF r.ok
           THEN /\ gq' = [gq EXCEPT !.init_flows_array = r.flows]
                /\ rpc' = "reordered"
                /\ rerr' = rerr
           ELSE RapidRaise(r.err) /\ gq' = gq
    /\ UNCHANGED <<rin, rapidObj, qinitDisk, cmp>>
    /\ UNCHANGED notRapid

\* Lines 419-422: the file is opened for writing and gets one line per flow.
GqWrite ==
    /\ rpc = "reordered"
    /\ qinitDisk' = [exists |-> TRUE,
                     lines |-> [j \in DOMAIN gq.init_flows_array |->
                                   FormatLine(gq.init_flows_array[j])]]
    /\ rpc' = "written"
    /\ UNCHANGED <<rin, rerr, rapidObj, gq, cmp>>
    /\ UNCHANGED notRapid

\* Lines 424-425.
GqSetAttributes ==
    /\ rpc = "written"
    /\ rapidObj' = [Qinit_file |-> "qinit_file", BS_opt_Qinit |-> TRUE]
    /\ rpc' = "done"
    /\ UNCHANGED <<rin, rerr, qinitDisk, gq, cmp>>
    /\ UNCHANGED notRapid

\* Lines 527-529: both stores are opened and their identifiers compared.
CompareOpen ==
    /\ rin.op = "compare"
    /\ rpc = "start"
    /\ IF rin.d1.idVar # "COMID"
       THEN RapidRaise(Err("KeyError", 0)) /\ cmp' = cmp
       ELSE /\ cmp' = [cmp EXCEPT !.reorder = ReorderWanted(rin.d1.ids, rin.d2.ids)]
            /\ rpc' = "opened"
            /\ rerr' = rerr
    /\ UNCHANGED <<rin, rapidObj, qinitDisk, gq>>
    /\ UNCHANGED notRapid

\* Lines 530-546: the positions of d1's identifiers in d2, and d2's flows
\* taken at these positions along the identifier axis d1 declares.
CompareReorder ==
    /\ rpc = "opened"
    /\ cmp.reorder
    /\ LET r == ReorderedComidList(rin.d1.ids, rin.d2.ids)
           a == StoredArray(rin.d2)
           dims == rin.d1.dims
       IN  IF Len(rin.d1.ids) # Len(rin.d2.ids)
           THEN RapidRaise(Err("Exception_length", 0)) /\ cmp' = cmp
           ELSE IF ~r.ok
           THEN /\ RapidRaise(r.err)
                /\ cmp' = [cmp EXCEPT !.d2_reordered_comid_list = r.list]
           ELSE IF Lower(dims[1]) = "time" /\ Lower(dims[2]) = "comid"
           THEN /\ cmp' = [cmp EXCEPT !.d2_reordered_comid_list = r.list,
                                      !.d2_reordered_qout = TakeCols(a, r.list)]
                /\ rpc' = "aligned"
                /\ rerr' = rerr
           ELSE IF Lower(dims[2]) = "time" /\ Lower(dims[1]) = "comid"
           THEN /\ cmp' = [cmp EXCEPT !.d2_reordered_comid_list = r.list,
                                      !.d2_reordered_qout = TakeRows(a, r.list)]
                /\ rpc' = "aligned"
                /\ rerr' = rerr
           ELSE /\ RapidRaise(Err("Exception_invalid_file", 0))
                /\ cmp' = [cmp EXCEPT !.d2_reordered_comid_list = r.list]
    /\ UNCHANGED <<rin, rapidObj, qinitDisk, gq>>
    /\ UNCHANGED notRapid

\* Line 548: d2's flows are taken as they are.
ComparePlain ==
    /\ rpc = "opened"
    /\ ~cmp.reorder
    /\ cmp' = [cmp EXCEPT !.d2_reordered_qout = StoredArray(rin.d2)]
    /\ rpc' = "aligned"
    /\ UNCHANGED <<rin, rerr, rapidObj, qinitDisk, gq>>
    /\ UNCHANGED notRapid

\* Lines 293-310, called after generate_qinit_from_past_qout: line 305
\* gives ConvertRAPIDOutputToCF a keyword rapid_connect_file, which its
\* constructor does not have, so the call raises TypeError before convert().
MakeOutputCFCompliant ==
    /\ rin.op = "qinit"
    /\ rpc = "done"
    /\ rerr' = Err("TypeError_keyword", 0)
    /\ rpc' = "cf_raised"
    /\ UNCHANGED <<rin, rapidObj, qinitDisk, gq, cmp>>
    /\ UNCHANGED notRapid

RapidNext ==
    \/ GqExtract
    \/ GqReorder
    \/ GqWrite
    \/ GqSetAttributes
    \/ MakeOutputCFCompliant
    \/ CompareOpen
    \/ CompareReorder
    \/ ComparePlain

RapidSpec == RapidInit /\ [][RapidNext]_vars

\* ======================================= generate_seasonal_averages.py
\* Library semantics used:
\*   - time.gmtime(t) gives a struct_time, whose fields are read-only:
\*     assigning to tm_yday raises (TypeError in Python 2).
\*   - average_flow and std_dev_flow have the dimensions (rivid,
\*     day_of_year); var[k] = data addresses index k of the first dimension,
\*     rivid, and all 365 entries of the second.  An index beyond the rivid
\*     length raises IndexError; data of another length than 365 raises,
\*     except that data of one element is, depending on the library
\*     version, either spread over the 365 entries or refused as well.
\*   - a Manager().Lock() stays acquired until release() is called, also
\*     when the call that acquired it has ended with an exception.
\*   - pool.map raises in the parent as soon as one call has raised.
\* ------------------------------------------------------------ constants
\* createDimension('day_of_year', 365) and range(1, 366)
DaysInYear == 365
\* tm_yday > 60
LeapShiftAfter == 60
\* day_of_year - 3, day_of_year + 3
HalfWindow == 3
\* seconds of a day, for gmtime
SecondsPerDay == 86400

\* ------------------------------------------------------------ bounds
\* the number of the 365 pool tasks that are followed
MaxJobs == 2

\* ------------------------------------------------------------ calendar
\* calendar.isleap
IsLeap(y) == y % 4 = 0 /\ (y % 100 # 0 \/ y % 400 = 0)

DaysIn(y) == IF IsLeap(y) THEN DaysInYear + 1 ELSE DaysInYear

RECURSIVE GmTimeFrom(_, _)
GmTimeFrom(y, days) ==
    IF days < DaysIn(y) THEN [tm_year |-> y, tm_yday |-> days + 1]
    ELSE GmTimeFrom(y + 1, days - DaysIn(y))

\* time.gmtime(t) for t >= 0: the year and the day of the year, from 1.
GmTime(t) == GmTimeFrom(1970, t \div SecondsPerDay)

\* ------------------------------------------------------------ inputs
\* Time arrays (seconds since 1970-01-01T00:00:00Z) of the input store:
\*   1999-01-01, 1999-02-28, 1999-03-01        (days 1, 59, 60)
\*   2000-01-01, 2000-02-28, 2000-02-29        (days 1, 59, 60 of a leap year)
\*   2000-02-29, 2000-03-01                    (days 60, 61 of a leap year)
\*   1999-12-31, 2000-12-31                    (days 365 and 366)
\*   1999-12-31                                (day 365)
TimeArrays ==
    { <<915148800, 920160000, 920246400>>,
      <<946684800, 951696000, 951782400>>,
      <<951782400, 951868800>>,
      <<946598400, 978220800>>,
      <<946598400>> }

\* The bins whose tasks are followed.
DayPool == {1, 57, 60, 63, DaysInYear}

\* The strictly increasing sequences of n elements of S.
IncreasingSeqs(S, n) == {s \in [1..n -> S] : \A i \in 1..(n - 1) : s[i] < s[i + 1]}

DaySamples == UNION {IncreasingSeqs(DayPool, n) : n \in 1..MaxJobs}

\* The input store: its time array, identifiers, flows (q[i][t]) and
\* whether it has lat and lon variables.
SeasonalInputs ==
    { [times |-> ta, ids |-> SubSeq(PoolSeq, 1, n),
       q |-> [i \in 1..n |-> [t \in 1..Len(ta) |-> CellValue(i, t)]],
       hasLatLon |-> h, days |-> ds, broadcasts |-> b] :
        ta \in TimeArrays, n \in 1..MaxN, h \in BOOLEAN, ds \in DaySamples,
        b \in BOOLEAN }

\* ------------------------------------------------------------ the Reader
\* RAPIDDataset.get_time_array()
GetTimeArray(src) == src.times
\* RAPIDDataset.get_river_id_array()
GetRiverIdArray(src) == src.ids
\* RAPIDDataset.get_qout(time_index_array=...): identifier x chosen steps.
GetQout(src, time_index_array) ==
    [i \in DOMAIN src.ids |->
        [k \in DOMAIN time_index_array |-> src.q[i][time_index_array[k] + 1]]]

\* ------------------------------------------------------------ one task
\* A leap-day rule that gives Feb 29 the day of Feb 28.
LeapAdjustFolding(var_time) ==
    [raises |-> IsLeap(var_time.tm_year) /\ var_time.tm_yday > LeapShiftAfter,
     tm_yday |-> IF IsLeap(var_time.tm_year) /\ var_time.tm_yday = LeapShiftAfter
                 THEN var_time.tm_yday - 1 ELSE var_time.tm_yday]

\* Lines 36-37: in a leap year past day 60 the field tm_yday is assigned
\* to, which raises; every other step keeps its calendar day.
LeapAdjust(var_time) ==
    [raises |-> IsLeap(var_time.tm_year) /\ var_time.tm_yday > LeapShiftAfter,
     tm_yday |-> var_time.tm_yday]

\* A window closed on both sides.
InWindowClosed(tm_yday, day_of_year) ==
    tm_yday >= day_of_year - HalfWindow /\ tm_yday <= day_of_year + HalfWindow

\* Lines 27-28 and 39.
InWindow(tm_yday, day_of_year) ==
    tm_yday >= day_of_year - HalfWindow /\ tm_yday < day_of_year + HalfWindow

\* The empty selection let through.
NoTimeStepsIgnored(time_indices) == FALSE

\* Line 42: not time_indices
NoTimeSteps(time_indices) == time_indices = <<>>

\* The elements of a set of numbers in ascending order.
Ascending(S) ==
    [k \in 1..Cardinality(S) |->
        CHOOSE x \in S : Cardinality({y \in S : y < x}) = k - 1]

\* Lines 31-43: the loop over the time array.  It ends at the first step
\* whose tm_yday is assigned to; ydays are the days of the steps handled.
SelectTimeIndices(times, day_of_year) ==
    LET adj(k) == LeapAdjust(GmTime(times[k]))
        raising == {k \in DOMAIN times : adj(k).raises}
        upto == IF raising = {} THEN Len(times) ELSE Min(raising) - 1
        chosen == {k - 1 : k \in {j \in 1..upto :
                                    InWindow(adj(j).tm_yday, day_of_year)}}
        time_indices == Ascending(chosen)
        ydays == [k \in 1..upto |-> adj(k).tm_yday]
    IN  IF raising # {}
        THEN [ok |-> FALSE, err |-> Err("TypeError_readonly", Min(raising) - 1),
              time_indices |-> time_indices, ydays |-> ydays]
        ELSE IF NoTimeSteps(time_indices)
        THEN [ok |-> FALSE, err |-> Err("IndexError_no_time_steps", day_of_year),
              time_indices |-> time_indices, ydays |-> ydays]
        ELSE [ok |-> TRUE, err |-> NoErr,
              time_indices |-> time_indices, ydays |-> ydays]

RECURSIVE SumSeq(_)
SumSeq(s) == IF s = <<>> THEN 0 ELSE s[1] + SumSeq(Tail(s))

\* np.mean of a row, as the exact fraction num/den.
MeanOf(row) == [num |-> SumSeq(row), den |-> Len(row)]

\* np.std of a row, given by its square (the variance) as the exact
\* fraction num/den.
StdOf(row) ==
    [num |-> Len(row) * SumSeq([k \in DOMAIN row |-> row[k] * row[k]])
             - SumSeq(row) * SumSeq(row),
     den |-> Len(row) * Len(row)]

\* Lines 52 and 53: var[k] = data on a (rivid, day_of_year) variable whose
\* written entries are cells <<i, j, v>> (i-th identifier, day j, from 1).
\* The set of the outcomes the library can give.
WriteOutcomes(cells, id_len, k, data) ==
    LET row(v) == {c \in cells : c[1] # k + 1} \cup
                  {<<k + 1, j, v[j]>> : j \in 1..DaysInYear}
        refused(e) == [ok |-> FALSE, err |-> Err(e, k), cells |-> cells]
    IN  IF k >= id_len THEN {refused("IndexError_out_of_range")}
        ELSE IF Len(data) = DaysInYear
        THEN {[ok |-> TRUE, err |-> NoErr, cells |-> row(data)]}
        ELSE IF Len(data) = 1
        THEN {[ok |-> TRUE, err |-> NoErr,
               cells |-> row([j \in 1..DaysInYear |-> data[1]])],
              refused("ValueError_shape")}
        ELSE {refused("ValueError_shape")}

\* The outcome the installed library gives: where the versions differ, the
\* one of the input's library (it spreads one element, or it refuses).
LibraryOutcomes(outcomes, broadcasts) ==
    IF Cardinality(outcomes) = 1 THEN outcomes
    ELSE {o \in outcomes : o.ok = broadcasts}

\* ------------------------------------------------------------ state
NoSeasonalStore ==
    [exists |-> FALSE, open |-> FALSE, rivid_len |-> 0, day_len |-> 0,
     vars |-> {}, rivid |-> <<>>, lat |-> <<>>, lon |-> <<>>,
     average_flow |-> {}, std_dev_flow |-> {}]

NoLocals == [time_indices |-> <<>>, ydays |-> <<>>, avg |-> <<>>, std |-> <<>>,
             err |-> NoErr]

\* The bins whose tasks are followed, out of range(1, 366).
Tasks == Range(sin.days)

SeasonalInit ==
    /\ ConverterIdle
    /\ RapidIdle
    /\ sin \in SeasonalInputs
    /\ ppc = "start"
    /\ perr = NoErr
    /\ store = NoSeasonalStore
    /\ lock = 0
    /\ wpc = [d \in Tasks |-> "idle"]
    /\ wloc = [d \in Tasks |-> NoLocals]

\* ------------------------------------------------------------ the parent
\* Lines 65-96: the output store is created and its dimensions and
\* variables declared.
ParentCreate ==
    /\ ppc = "start"
    /\ store' = [NoSeasonalStore EXCEPT
                    !.exists = TRUE, !.open = TRUE,
                    !.rivid_len = Len(sin.ids), !.day_len = DaysInYear,
                    !.vars = {"rivid", "average_flow", "std_dev_flow", "lat", "lon"}]
    /\ ppc' = "declared"
    /\ UNCHANGED <<sin, perr, lock, wpc, wloc>>
    /\ UNCHANGED notSeasonal

\* Lines 98-102: lat, lon and the identifiers are copied from the input; an
\* input without lat or lon raises KeyError.
ParentCopy ==
    /\ ppc = "declared"
    /\ IF sin.hasLatLon
       THEN /\ store' = [store EXCEPT
                            !.lat = [i \in DOMAIN sin.ids |-> LatOf(sin.ids[i])],
                            !.lon = [i \in DOMAIN sin.ids |-> LonOf(sin.ids[i])],
                            !.rivid = GetRiverIdArray(sin)]
            /\ ppc' = "copied"
            /\ perr' = perr
       ELSE /\ store' = store
            /\ ppc' = "setup_raised"
            /\ perr' = Err("KeyError", 0)
    /\ UNCHANGED <<sin, lock, wpc, wloc>>
    /\ UNCHANGED notSeasonal

\* Line 103.
ParentClose ==
    /\ ppc = "copied"
    /\ store' = [store EXCEPT !.open = FALSE]
    /\ ppc' = "closed"
    /\ UNCHANGED <<sin, perr, lock, wpc, wloc>>
    /\ UNCHANGED notSeasonal

\* Lines 106-109: the one lock, and one job per bin carrying it.
ParentMakeJobs ==
    /\ ppc = "closed"
    /\ lock' = 0
    /\ ppc' = "jobs"
    /\ UNCHANGED <<sin, perr, store, wpc, wloc>>
    /\ UNCHANGED notSeasonal

\* The pool started once the store is declared, before lines 98-109.
ParentStartPoolEarly ==
    /\ ppc = "declared"
    /\ ppc' = "mapping"
    /\ UNCHANGED <<sin, perr, store, lock, wpc, wloc>>
    /\ UNCHANGED notSeasonal

\* Lines 115-116: the pool is created and given the jobs.
ParentStartPool ==
    /\ ppc = "jobs"
    /\ ppc' = "mapping"
    /\ UNCHANGED <<sin, perr, store, lock, wpc, wloc>>
    /\ UNCHANGED notSeasonal

\* Lines 116-119: pool.map returns when every task has returned.
ParentMapReturns ==
    /\ ppc = "mapping"
    /\ \A d \in Tasks : wpc[d] = "done"
    /\ ppc' = "done"
    /\ UNCHANGED <<sin, perr, store, lock, wpc, wloc>>
    /\ UNCHANGED notSeasonal

\* Line 116: pool.map raises what a task has raised.
ParentMapRaises ==
    /\ ppc = "mapping"
    /\ \E d \in Tasks :
          /\ wpc[d] = "failed"
          /\ perr' = wloc[d].err
    /\ ppc' = "map_raised"
    /\ UNCHANGED <<sin, store, lock, wpc, wloc>>
    /\ UNCHANGED notSeasonal

\* ------------------------------------------------------------ the tasks
\* The pool runs its tasks from the moment it has the jobs; after
\* pool.map has raised, the tasks that are left go on for as long as the
\* pool's processes live.
PoolRunning == ppc \in {"mapping", "map_raised"}

\* Line 30: the input store is opened.
TaskOpen ==
    /\ PoolRunning
    /\ \E d \in Tasks :
          /\ wpc[d] = "idle"
          /\ wpc' = [wpc EXCEPT ![d] = "reading"]
    /\ UNCHANGED <<sin, ppc, perr, store, lock, wloc>>
    /\ UNCHANGED notSeasonal

\* Lines 31-43: the time steps of the bin are selected.
TaskSelect ==
    /\ PoolRunning
    /\ \E d \in Tasks :
          /\ wpc[d] = "reading"
          /\ LET r == SelectTimeIndices(GetTimeArray(sin), d)
             IN  /\ wloc' = [wloc EXCEPT ![d].time_indices = r.time_indices,
                                         ![d].ydays = r.ydays,
                                         ![d].err = r.err]
                 /\ wpc' = [wpc EXCEPT ![d] = IF r.ok THEN "selected" ELSE "failed"]
    /\ UNCHANGED <<sin, ppc, perr, store, lock>>
    /\ UNCHANGED notSeasonal

\* Lines 45-48: the flows of the selected steps, their mean and standard
\* deviation per identifier.
TaskCompute ==
    /\ PoolRunning
    /\ \E d \in Tasks :
          /\ wpc[d] = "selected"
          /\ LET streamflow_array == GetQout(sin, wloc[d].time_indices)
             IN  wloc' = [wloc EXCEPT
                    ![d].avg = [i \in DOMAIN streamflow_array |->
                                   MeanOf(streamflow_array[i])],
                    ![d].std = [i \in DOMAIN streamflow_array |->
                                   StdOf(streamflow_array[i])]]
          /\ wpc' = [wpc EXCEPT ![d] = "computed"]
    /\ UNCHANGED <<sin, ppc, perr, store, lock>>
    /\ UNCHANGED notSeasonal

\* acquire() that does not wait for the lock to be free.
TaskAcquireNoWait ==
    /\ PoolRunning
    /\ \E d \in Tasks :
          /\ wpc[d] = "computed"
          /\ lock' = d
          /\ wpc' = [wpc EXCEPT ![d] = "locked"]
    /\ UNCHANGED <<sin, ppc, perr, store, wloc>>
    /\ UNCHANGED notSeasonal

\* Line 50: mp_lock.acquire() returns once the lock is free.
TaskAcquire ==
    /\ PoolRunning
    /\ \E d \in Tasks :
          /\ wpc[d] = "computed"
          /\ lock = 0
          /\ lock' = d
          /\ wpc' = [wpc EXCEPT ![d] = "locked"]
    /\ UNCHANGED <<sin, ppc, perr, store, wloc>>
    /\ UNCHANGED notSeasonal

\* Line 51: the output store is opened for appending.
TaskOpenStore ==
    /\ PoolRunning
    /\ \E d \in Tasks :
          /\ wpc[d] = "locked"
          /\ wpc' = [wpc EXCEPT ![d] = "opened"]
    /\ UNCHANGED <<sin, ppc, perr, store, lock, wloc>>
    /\ UNCHANGED notSeasonal

\* Lines 52-53: both slices are written; a write that raises ends the call
\* with the store open and the lock acquired.
TaskWrite ==
    /\ PoolRunning
    /\ \E d \in Tasks :
          /\ wpc[d] = "opened"
          /\ \E a \in LibraryOutcomes(
                         WriteOutcomes(store.average_flow, store.rivid_len,
                                       d - 1, wloc[d].avg), sin.broadcasts) :
                IF ~a.ok
                THEN /\ wloc' = [wloc EXCEPT ![d].err = a.err]
                     /\ wpc' = [wpc EXCEPT ![d] = "failed"]
                     /\ store' = store
                ELSE LET s == CHOOSE o \in WriteOutcomes(store.std_dev_flow,
                                       store.rivid_len, d - 1, wloc[d].std) : o.ok
                     IN  /\ store' = [store EXCEPT !.average_flow = a.cells,
                                                   !.std_dev_flow = s.cells]
                         /\ wpc' = [wpc EXCEPT ![d] = "written"]
                         /\ wloc' = wloc
    /\ UNCHANGED <<sin, ppc, perr, lock>>
    /\ UNCHANGED notSeasonal

\* Line 54.
TaskClose ==
    /\ PoolRunning
    /\ \E d \in Tasks :
          /\ wpc[d] = "written"
          /\ wpc' = [wpc EXCEPT ![d] = "closed"]
    /\ UNCHANGED <<sin, ppc, perr, store, lock, wloc>>
    /\ UNCHANGED notSeasonal

\* Line 55: mp_lock.release(); the call returns.
TaskRelease ==
    /\ PoolRunning
    /\ \E d \in Tasks :
          /\ wpc[d] = "closed"
          /\ lock' = 0
          /\ wpc' = [wpc EXCEPT ![d] = "done"]
    /\ UNCHANGED <<sin, ppc, perr, store, wloc>>
    /\ UNCHANGED notSeasonal

SeasonalNext ==
    \/ ParentCreate
    \/ ParentCopy
    \/ ParentClose
    \/ ParentMakeJobs
    \/ ParentStartPool
    \/ ParentMapReturns
    \/ ParentMapRaises
    \/ TaskOpen
    \/ TaskSelect
    \/ TaskCompute
    \/ TaskAcquire
    \/ TaskOpenStore
    \/ TaskWrite
    \/ TaskClose
    \/ TaskRelease

SeasonalSpec == SeasonalInit /\ [][SeasonalNext]_vars

\* ------------------------------------------------------------ claims
N == Len(raw.ids)
T == raw.T
Ran(e) == e \in Range(events)
Pos(e) == CHOOSE i \in DOMAIN events : events[i] = e
Aborted == pc \in {"handler", "raised"}
Populated == Ran("time") /\ Ran("ids") /\ Ran("latlon") /\ Ran("streamflow")

\* What the raw store lacks, read off its names (not through the validator).
LacksIdDimension == raw.dims \cap IdNames = {}
LacksTimeDimension == "Time" \notin raw.dims
LacksFlowVariable == raw.vars \cap {"Qout", "m3_riv"} = {}
RawInvalid == LacksIdDimension \/ LacksTimeDimension \/ LacksFlowVariable

\* C1: after a successful conversion the output flow variable has shape
\* (identifier = N, time = T + 1) and output[i][k] is the raw flow of
\* identifier i at raw step k - 1, for k in 1..T.
C1_FlowShifted ==
    pc = "done" =>
        /\ cf.qCreated
        /\ Rows(cf.q) = N
        /\ Cols(cf.q) = T + 1
        /\ \A i \in 1..N : \A k \in 1..T : cf.q[i][k + 1] = raw.q[i][k]

\* C2: after a successful conversion slot 0 of every identifier's row holds
\* the identifier's value of the initial-flow file when one is supplied and
\* 0 when none is.
C2_SlotZero ==
    pc = "done" =>
        /\ cf.qCreated
        /\ \A i \in 1..N :
              /\ ~args.qinit_file.given => cf.q[i][1] = 0
              /\ (args.qinit_file.given /\ i <= Len(args.qinit_file.rows))
                    => cf.q[i][1] = args.qinit_file.rows[i][1]

\* C3: whatever the declared dimension order of the raw flow variable, the
\* array the streamflow stage offers to the output flow variable is the
\* (identifier, time) matrix of the raw values, so both orders of the same
\* values give the same output.
C3_OrientationDetected ==
    Ran("streamflow") =>
        /\ copied = raw.q
        /\ copied = CopySource([raw EXCEPT !.order =
                        IF raw.order = "time_id" THEN "id_time" ELSE "time_id"])

C6_ValidationFatal ==
    (RawInvalid /\ pc # "start") =>
        /\ Aborted
        /\ err.kind \in {"no_id_dimension", "no_time_dimension", "no_flow_variable"}
        /\ cfPath # "cf"
        /\ cf = NoStore
        /\ ~cfOpen
        /\ rawPath = "raw"
        /\ (pc = "raised" => cfPath = "none")

C6_Witness ==
    /\ pc = "raised"
    /\ LacksTimeDimension
    /\ ~LacksIdDimension
    /\ err.kind = "no_time_dimension"
    /\ cfPath = "none"
    /\ rawPath = "raw"

\* C7: once the time axis is populated the time variable holds the T + 1
\* values start, start + s, ..., start + T*s, none of them beyond what the
\* 32-bit storage holds.
C7_TimeAxisExact ==
    (Ran("time") /\ ~Aborted) =>
        /\ Len(cf.time) = T + 1
        /\ \A k \in 0..T :
              /\ k * args.time_step <= I4Max - args.start
              /\ cf.time[k + 1] = args.start + k * args.time_step

\* The identifiers of the store that have no row in the lookup table, read
\* off the two inputs.
TableIds == {args.comid_lat_lon_z_file.table[j][1] :
                j \in 2..Len(args.comid_lat_lon_z_file.table)}
MissingAt == {i \in 1..N : raw.ids[i] \notin TableIds}
LookupMiss == args.comid_lat_lon_z_file.given /\ MissingAt # {}

QinitMissing == Range(rin.d1.ids) \ Range(rin.connect)
CompareMissing == Range(rin.d1.ids) \ Range(rin.d2.ids)
QinitReordered == rin.op = "qinit" /\ rpc \in {"reordered", "written", "done"}
CompareReordered == rin.op = "compare" /\ rpc = "aligned" /\ cmp.reorder

\* C11: when every target identifier occurs in the source, the reindexing
\* gives one position per target identifier and the source holds, at the
\* position given for a target identifier, that identifier: in
\* compare_qout_files d2_ids[r[i]] = d1_ids[i] for every i (and r is
\* 0, 1, 2, ... when d1 and d2 hold the same sequence); in
\* generate_qinit_from_past_qout the flow of the store's k-th identifier is
\* at the position of that identifier in the connectivity list.
C11_ReindexAligns ==
    /\ CompareReordered =>
          LET r == cmp.d2_reordered_comid_list
          IN  /\ CompareMissing = {}
              /\ Len(r) = Len(rin.d1.ids)
              /\ \A i \in DOMAIN r :
                    /\ r[i] \in 0..(Len(rin.d2.ids) - 1)
                    /\ rin.d2.ids[r[i] + 1] = rin.d1.ids[i]
              /\ rin.d1.ids = rin.d2.ids => \A i \in DOMAIN r : r[i] = i - 1
    /\ QinitReordered =>
          /\ QinitMissing = {}
          /\ Len(gq.init_flows_array) = Len(rin.connect)
          /\ \A j \in DOMAIN rin.connect, k \in DOMAIN rin.d1.ids :
                rin.connect[j] = rin.d1.ids[k] =>
                    gq.init_flows_array[j] = FlowOf(rin.d1.ids[k], rin.d1.T)
    /\ (rpc = "raised" /\ rerr.kind = "IndexError") => CompareMissing # {}
    /\ (rpc = "raised" /\ rerr.kind = "Exception_not_found") => QinitMissing # {}

\* compare_qout_files has reordered three identifiers that d2 holds in
\* another order than d1.
C11_Witness ==
    /\ CompareReordered
    /\ Len(rin.d1.ids) = 3
    /\ \E i \in DOMAIN cmp.d2_reordered_comid_list :
          cmp.d2_reordered_comid_list[i] # i - 1

\* C12: in both uses a target identifier the source does not hold stops
\* the operation with an error that names a missing identifier, and in
\* generate_qinit_from_past_qout the file at qinit_file, Qinit_file and
\* BS_opt_Qinit are then as they were before the call.
C12_MissingIdNamed ==
    /\ ( /\ rin.op = "qinit"
         /\ QinitMissing # {}
         /\ rpc \notin {"start", "extracted"}
         /\ rerr.kind \notin {"KeyError", "Exception_invalid_file"} )
       => /\ rpc = "raised"
          /\ rerr.arg \in QinitMissing
          /\ qinitDisk = PrevDisk(rin.had)
          /\ rapidObj = PrevObj(rin.had)
    /\ ( /\ rin.op = "compare"
         /\ CompareMissing # {}
         /\ rpc \notin {"start", "opened"}
         /\ rerr.kind \notin {"KeyError", "Exception_invalid_file"} )
       => /\ rpc = "raised"
          /\ rerr.arg \in CompareMissing

\* The flow variable of Qout_file is declared (time, comid) or (comid, time).
QoutOrderKnown ==
    \/ Lower(rin.d1.dims[1]) = "time" /\ Lower(rin.d1.dims[2]) = "comid"
    \/ Lower(rin.d1.dims[1]) = "comid" /\ Lower(rin.d1.dims[2]) = "time"

\* generate_qinit_from_past_qout has returned (a later call of
\* make_output_CF_compliant may have followed).
GqEnded == rpc \in {"done", "cf_raised"}

\* C24: generate_qinit_from_past_qout stops with an error unless the flow
\* variable is declared (time, comid) or (comid, time); the file it writes
\* has one line per entry of the connectivity list, in its order, with the
\* identifier's flow at the last time step when the store holds the
\* identifier and 0 otherwise; Qinit_file and BS_opt_Qinit are as before
\* the call until the file is written, and the new path and true at the end.
C24_QinitFromLastStep ==
    rin.op = "qinit" =>
        /\ ~QoutOrderKnown => rpc \in {"start", "raised"}
        /\ (rpc = "written" \/ GqEnded) =>
              /\ qinitDisk.exists
              /\ Len(qinitDisk.lines) = Len(rin.connect)
              /\ \A j \in DOMAIN rin.connect :
                    qinitDisk.lines[j] =
                        IF rin.connect[j] \in Range(rin.d1.ids)
                        THEN <<FlowOf(rin.connect[j], rin.d1.T)>>
                        ELSE <<0>>
        /\ ~GqEnded => rapidObj = PrevObj(rin.had)
        /\ rpc \in {"start", "extracted", "reordered", "raised"} =>
              qinitDisk = PrevDisk(rin.had)
        /\ GqEnded =>
              rapidObj = [Qinit_file |-> "qinit_file", BS_opt_Qinit |-> TRUE]

\* The call has ended for a (time, comid) store of two time steps and a
\* connectivity list that is longer than the store's identifier array and
\* starts with another identifier.
C24_Witness ==
    /\ rin.op = "qinit"
    /\ rpc = "done"
    /\ Lower(rin.d1.dims[1]) = "time"
    /\ rin.d1.T = 2
    /\ Len(rin.connect) > Len(rin.d1.ids)
    /\ rin.connect[1] # rin.d1.ids[1]
    /\ \E j \in DOMAIN rin.connect : rin.connect[j] \notin Range(rin.d1.ids)

\* The flow store d1 as the converter reads a raw store.
QoutAsRaw ==
    [dims |-> {"COMID", "Time"}, vars |-> {"COMID", "Qout"},
     order |-> IF Lower(rin.d1.dims[1]) = "time" THEN "time_id" ELSE "id_time",
     ids |-> rin.d1.ids, T |-> rin.d1.T, q |-> rin.d1.q]
\* What _copy_streamflow_values gives when the converter's stage bodies run
\* on that store with qinit_file = the file generate_qinit_from_past_qout
\* has written.
ConsumedQinit ==
    LET v == ValidateRawNc(QoutAsRaw)
    IN  CopyStreamflowValues(InitializeOutput("COMID", v.time_len, v.id_len),
                             QoutAsRaw, "COMID",
                             [given |-> TRUE, rows |-> qinitDisk.lines])

\* C27: once generate_qinit_from_past_qout has written its file, the
\* conversion that make_output_CF_compliant starts with it is not refused,
\* the converter's streamflow step takes the file without error, and slot 0
\* of every output identifier's row holds that identifier's initial flow.
C27_QinitSlotZeroAligned ==
    (rin.op = "qinit" /\ GqEnded) =>
        /\ rpc # "cf_raised"
        /\ ConsumedQinit.ok
        /\ \A i \in DOMAIN rin.d1.ids :
              ConsumedQinit.cf.q[i][1] = FlowOf(rin.d1.ids[i], rin.d1.T)

\* The flow d2_reordered_qout holds for d1's i-th identifier at time step t.
ComparedFlow(i, t) ==
    IF Lower(rin.d1.dims[1]) = "time"
    THEN cmp.d2_reordered_qout[t][i]
    ELSE cmp.d2_reordered_qout[i][t]

\* C28: compare_qout_files never gets to the comparison with identifier
\* arrays of different length, and when the two stores hold the same
\* identifiers, in whatever order, the flows it compares with d1's are the
\* flows d2 holds for d1's identifier at the same position.
C28_ComparesSameIdentifier ==
    (rin.op = "compare" /\ rpc = "aligned") =>
        /\ Len(rin.d1.ids) = Len(rin.d2.ids)
        /\ Range(rin.d1.ids) = Range(rin.d2.ids) =>
              \A i \in DOMAIN rin.d1.ids, t \in 1..rin.d1.T :
                  ComparedFlow(i, t) = FlowOf(rin.d1.ids[i], t)

\* ------------------------------------------- generate_seasonal_averages.py
\* The calendar time of step k of the input (k from 1).
StepTime(k) == GmTime(sin.times[k])
\* The leap-adjusted day of the year of step k, as the rule states it.
Adjusted(k) ==
    IF IsLeap(StepTime(k).tm_year) /\ StepTime(k).tm_yday > LeapShiftAfter
    THEN StepTime(k).tm_yday - 1 ELSE StepTime(k).tm_yday
IsFeb29(k) == IsLeap(StepTime(k).tm_year) /\ StepTime(k).tm_yday = 31 + 29
IsFeb28(k) == StepTime(k).tm_yday = 31 + 28
\* The steps of bin d by the rule: adjusted day in [d-3, d+3).
BinSteps(d) == {k \in DOMAIN sin.times : d - 3 <= Adjusted(k) /\ Adjusted(k) < d + 3}
\* The flows of the i-th identifier at the steps of bin d, in time order.
BinFlows(i, d) == [j \in 1..Cardinality(BinSteps(d)) |-> sin.q[i][Ascending(BinSteps(d))[j]]]
\* Task d has left the loop over the time array, or has raised.
PastSelection(d) == wpc[d] \notin {"idle", "reading"}
\* The steps the loop of task d has handled, and those it has selected.
HandledSteps(d) == DOMAIN wloc[d].ydays
SelectedSteps(d) == {wloc[d].time_indices[j] + 1 : j \in DOMAIN wloc[d].time_indices}
\* Task d is between acquire() and release().
Critical == {"locked", "opened", "written", "closed"}
HasWritten(d) == wpc[d] \in {"written", "closed", "done"}
WriteErrors == {"IndexError_out_of_range", "ValueError_shape"}

C14_LeapAdjustedInRange ==
    /\ \A d \in Tasks : PastSelection(d) =>
          /\ Len(wloc[d].ydays) = Len(sin.times)
          /\ \A k \in HandledSteps(d) :
                /\ wloc[d].ydays[k] = Adjusted(k)
                /\ wloc[d].ydays[k] \in 1..365
    /\ \A c \in store.average_flow \cup store.std_dev_flow : c[2] - 1 \in 0..364

C16_SliceStored ==
    /\ \A d \in Tasks :
          /\ wpc[d] = "failed" => wloc[d].err.kind \notin WriteErrors
          /\ HasWritten(d) =>
                \A i \in DOMAIN sin.ids :
                    /\ <<i, d, MeanOf(BinFlows(i, d))>> \in store.average_flow
                    /\ <<i, d, StdOf(BinFlows(i, d))>> \in store.std_dev_flow
    /\ \A c \in store.average_flow \cup store.std_dev_flow :
          \E d \in Tasks : HasWritten(d) /\ c[2] = d

\* C17: at most one task is between acquire() and release(), and the lock
\* it holds is the one lock.
C17_MutualExclusion ==
    /\ Cardinality({d \in Tasks : wpc[d] \in Critical}) <= 1
    /\ \A d \in Tasks : wpc[d] \in Critical => lock = d

\* One task has the store open while another waits in acquire().
C17_Witness ==
    \E d, e \in Tasks : d # e /\ wpc[d] = "opened" /\ wpc[e] = "computed"

\* C18: the lock is held by no task that reads, selects or computes, and
\* whenever it is held its holder is between acquire() and release().
C18_LockOnlyAcrossWrite ==
    /\ \A d \in Tasks : wpc[d] \in {"reading", "selected", "computed"} => lock # d
    /\ lock # 0 => wpc[lock] \in Critical

\* C19: the task of a bin with no matching time step fails before
\* acquire(): it has raised, never held the lock and written nothing.
C19_EmptyBinFails ==
    \A d \in Tasks : (BinSteps(d) = {} /\ PastSelection(d)) =>
        /\ wpc[d] = "failed"
        /\ wloc[d].err.kind \in {"IndexError_no_time_steps", "TypeError_readonly"}
        /\ wloc[d].avg = <<>>
        /\ lock # d

\* The task of an empty bin has raised "No time steps found" while
\* another task has the store open.
C19_Witness ==
    \E d, e \in Tasks :
        /\ BinSteps(d) = {}
        /\ wpc[d] = "failed"
        /\ wloc[d].err.kind = "IndexError_no_time_steps"
        /\ wpc[e] = "opened"

\* The store as line 103 leaves it: declared with its full shape, holding
\* the identifiers, lat and lon of the input, and closed.
StoreReady ==
    /\ store.exists
    /\ ~store.open
    /\ store.rivid_len = Len(sin.ids)
    /\ store.day_len = 365
    /\ store.vars = {"rivid", "average_flow", "std_dev_flow", "lat", "lon"}
    /\ store.rivid = sin.ids
    /\ store.lat = [i \in DOMAIN sin.ids |-> LatOf(sin.ids[i])]
    /\ store.lon = [i \in DOMAIN sin.ids |-> LonOf(sin.ids[i])]

\* C20: the pool is running, a task has started or an entry has been
\* written only when the parent has created the store with its full shape,
\* filled identifiers, lat and lon, and closed it.
C20_StoreReadyBeforePool ==
    ( \/ ppc \in {"mapping", "map_raised", "done"}
      \/ \E d \in Tasks : wpc[d] # "idle"
      \/ store.average_flow \cup store.std_dev_flow # {} )
    => StoreReady

\* A task has written its slices into the store the parent prepared.
C20_Witness ==
    /\ StoreReady
    /\ \E d \in Tasks : wpc[d] = "written"

\* What the task of bin d writes when it runs with no other task, into the
\* store as the parent left it: the cells of its mean (which = "avg") or
\* standard deviation (which = "std"), none when it raises.
SoloCells(d, which) ==
    LET r == SelectTimeIndices(GetTimeArray(sin), d)
        flows == GetQout(sin, r.time_indices)
        data == IF which = "avg"
                THEN [i \in DOMAIN flows |-> MeanOf(flows[i])]
                ELSE [i \in DOMAIN flows |-> StdOf(flows[i])]
        outs == LibraryOutcomes(WriteOutcomes({}, Len(sin.ids), d - 1, data),
                                sin.broadcasts)
    IN  IF ~r.ok THEN {} ELSE UNION {IF o.ok THEN o.cells ELSE {} : o \in outs}

\* No task can take a further step: each has returned, has raised, or
\* waits in acquire() for a lock whose holder has raised.
TasksAtRest ==
    /\ ppc \in {"mapping", "map_raised", "done"}
    /\ \A d \in Tasks :
          \/ wpc[d] \in {"done", "failed"}
          \/ wpc[d] = "computed" /\ lock # 0 /\ wpc[lock] = "failed"

\* C21: there is one task per bin of the job list, each for a day in
\* 1..365, and once the tasks are at rest the store holds what the tasks
\* write one by one, whatever the order in which they ran and took the lock.
C21_OrderIndependent ==
    /\ Cardinality(Tasks) = Len(sin.days)
    /\ \A d \in Tasks : d \in 1..365
    /\ TasksAtRest =>
          /\ store.average_flow = UNION {SoloCells(d, "avg") : d \in Tasks}
          /\ store.std_dev_flow = UNION {SoloCells(d, "std") : d \in Tasks}

\* generate_seasonal_averages has ended after starting the pool: pool.map
\* has returned and the pool is closed and joined, or pool.map has raised.
AggregatorEnded == ppc \in {"done", "map_raised"}
NoWriteFailed == \A d \in Tasks : wloc[d].err.kind \notin WriteErrors

\* C23: when every bin has a matching time step and no write to the store
\* has failed, a run that has ended and whose tasks are at rest has ended
\* with pool.map returned, every task has written its slice and returned,
\* the lock is free and entry [i, d-1] is filled for every identifier i and
\* bin d.
C23_AllSlicesFilled ==
    ( /\ \A d \in Tasks : BinSteps(d) # {}
      /\ NoWriteFailed
      /\ AggregatorEnded
      /\ TasksAtRest )
    => /\ ppc = "done"
       /\ lock = 0
       /\ \A d \in Tasks :
             /\ wpc[d] = "done"
             /\ \A i \in DOMAIN sin.ids :
                   \E c \in store.average_flow : c[1] = i /\ c[2] = d

\* C25: a task that has ended, by returning or by raising, does not hold
\* the lock, and no task is left waiting in acquire() once the tasks are
\* at rest.
C25_LockReleasedOnFailure ==
    /\ \A d \in Tasks : wpc[d] \in {"done", "failed"} => lock # d
    /\ TasksAtRest => \A d \in Tasks : wpc[d] # "computed"

\* ------------------------------------------------------------ converter
\* The number of times step e has run.
Times(e) == Cardinality({i \in DOMAIN events : events[i] = e})
\* convert() has ended: it returned or the handler has raised.
ConvertEnded == pc \in {"done", "raised"}

\* C22: for a valid raw store, convert() as written ends at the commit
\* without error, after validate, initialize output, populate time,
\* identifiers, spatial attributes and streamflow, in that order and once
\* each.
C22_PipelineCommits ==
    (~RawInvalid /\ ConvertEnded) =>
        /\ pc = "done"
        /\ err = NoErr
        /\ Len(events) >= 6
        /\ events[1] = "validate"
        /\ events[2] \in {"initialize", "initialize_call"}
        /\ events[3] = "time"
        /\ events[4] = "ids"
        /\ events[5] = "latlon"
        /\ events[6] = "streamflow"
        /\ \A e \in {"validate", "time", "ids", "latlon", "streamflow"} : Times(e) = 1

====
